---- MODULE Spec2Model ----
(***************************************************************************)
(* DMXController of dmx_server.py: the 512-channel universe, the ENTTEC    *)
(* frame encoder, the serial transport handles, the 44 Hz update thread    *)
(* and the connect / auto_connect / stop lifecycle, with the Flask         *)
(* handlers (update_dmx, blackout, get_status) as concurrent callers.      *)
(*                                                                         *)
(* Granularity: one step per shared-memory access of the Python code.      *)
(* A for-loop iteration of set_channels is one step; the list copy         *)
(* [0x00] + self.dmx_data and the rebinding dmx.dmx_data = [0] * 512 are   *)
(* one step each (a single list operation / attribute store).              *)
(***************************************************************************)
EXTENDS Integers, Sequences, FiniteSets, TLC

(* ---------------- program constants ---------------- *)
NumChannels == 512
MaxLevel == 255
StartByte == 126
Label == 6
StartCode == 0
EndByte == 231
None == 0

(* ---------------- bounds of the model ---------------- *)
MaxValues == 2
MaxPorts == 2
MaxCalls == 2

Threads == {"t1", "t2"}
MainThread == "t1"
(* the constructor and each later call open at most one port and start at  *)
(* most one thread                                                         *)
Handles == 1..(MaxCalls + 1)
Loops == 1..(MaxCalls + 1)

(* inputs of the callers *)
StartChannels == {0, 511}
Levels == {-3, 300}
RECURSIVE SeqsUpTo(_, _)
SeqsUpTo(S, n) ==
    IF n = 0 THEN {<<>>}
    ELSE LET shorter == SeqsUpTo(S, n - 1)
         IN shorter \cup {Append(s, x) : s \in {q \in shorter : Len(q) = n - 1}, x \in S}
ListLevels == {300}
ValueLists == SeqsUpTo(ListLevels, MaxValues)

Min(a, b) == IF a < b THEN a ELSE b
Max(a, b) == IF a > b THEN a ELSE b

(* ---------------- serial devices of the host ---------------- *)
Devices == {"COM1", "COM2", "COM3"}
description(dev) ==
    CASE dev = "COM1" -> <<"E", "n", "t", "t", "e", "c">>
      [] dev = "COM2" -> <<"U", "S", "B", " ", "S", "e", "r", "i", "a", "l">>
      [] OTHER        -> <<"M", "o", "d", "e", "m">>

lower(s) ==
    LET up == <<"A", "B", "C", "D", "E", "F", "G", "H", "I", "J", "K", "L", "M",
                "N", "O", "P", "Q", "R", "S", "T", "U", "V", "W", "X", "Y", "Z">>
        lo == <<"a", "b", "c", "d", "e", "f", "g", "h", "i", "j", "k", "l", "m",
                "n", "o", "p", "q", "r", "s", "t", "u", "v", "w", "x", "y", "z">>
        one(c) == IF \E i \in 1..Len(up) : up[i] = c
                  THEN lo[CHOOSE i \in 1..Len(up) : up[i] = c]
                  ELSE c
    IN [i \in 1..Len(s) |-> one(s[i])]

keywords ==
    { <<"d", "m", "x">>,
      <<"e", "n", "t", "t", "e", "c">>,
      <<"f", "t", "d", "i">>,
      <<"d", "m", "x", "k", "i", "n", "g">>,
      <<"u", "s", "b", " ", "s", "e", "r", "i", "a", "l">> }

Contains(kw, s) ==
    \E i \in 1..(Len(s) - Len(kw) + 1) : SubSeq(s, i, i + Len(kw) - 1) = kw

matches(dev) == \E kw \in keywords : Contains(kw, lower(description(dev)))

RECURSIVE ListsUpTo(_)
ListsUpTo(n) ==
    IF n = 0 THEN {<<>>}
    ELSE LET shorter == ListsUpTo(n - 1)
         IN shorter \cup
            {Append(s, d) : s \in {q \in shorter : Len(q) = n - 1},
                            d \in Devices}
NoRepeat(s) == \A i, j \in 1..Len(s) : i # j => s[i] # s[j]
comports == {s \in ListsUpTo(MaxPorts) : NoRepeat(s)}

(* ---------------- universe store ---------------- *)
Zeros == [c \in 1..NumChannels |-> 0]

(* max(0, ...) forgotten *)
ClampUpperOnly(value) == Min(MaxLevel, value)

Clamp(value) == Max(0, Min(MaxLevel, value))

(* the lower bound of the channel test forgotten: channel - 1 below 0      *)
(* indexes the list from its end                                           *)
set_channel_wraps(data, channel, value) ==
    IF channel <= NumChannels
    THEN [data EXCEPT ![IF channel >= 1 THEN channel ELSE NumChannels + channel]
                         = Clamp(value)]
    ELSE data

set_channel(data, channel, value) ==
    IF 1 <= channel /\ channel <= NumChannels
    THEN [data EXCEPT ![channel] = Clamp(value)]
    ELSE data

(* ---------------- packet encoder ---------------- *)
(* the length written high byte first *)
EncodeBigEndian(data) ==
    LET dmx_packet == <<StartCode>> \o data
        length == Len(dmx_packet)
    IN <<StartByte, Label, (length \div 256) % 256, length % 256>>
       \o dmx_packet \o <<EndByte>>

Encode(data) ==
    LET dmx_packet == <<StartCode>> \o data
        length == Len(dmx_packet)
    IN <<StartByte, Label, length % 256, (length \div 256) % 256>>
       \o dmx_packet \o <<EndByte>>

Payload(packet) == SubSeq(packet, 6, Len(packet) - 1)

(* ---------------- state ---------------- *)
VARIABLES
    dmx_data,       \* self.dmx_data: the universe, channel c at index c
    serial_port,    \* self.serial_port: None or a handle
    running,        \* self.running
    update_thread,  \* self.update_thread: None or a thread
    handle,         \* the serial.Serial objects: "free" (not created), "open", "closed"
    loop,           \* the threading.Thread objects running _update_loop
    pc,             \* position of each caller thread
    loc,            \* local variables of each caller thread
    constructed,    \* DMXController.__init__ has returned
    calls           \* calls issued out of the budget of MaxCalls

vars == <<dmx_data, serial_port, running, update_thread, handle, loop, pc,
          loc, constructed, calls>>

(* Locals of a caller thread.  op/ret: the outermost call and its result;  *)
(* h: the handle this call opened; held: self.serial_port when stop was    *)
(* called; timedout: the join of stop timed out; dirty: an update of this  *)
(* set_channels call has changed a channel; zeroed: this blackout call has *)
(* zeroed a channel; before: the universe when a call of a lone caller     *)
(* began.                                                                  *)
NoLoc == [op |-> "none", ret |-> "none", start |-> 0, values |-> <<>>,
          i |-> 0, dirty |-> FALSE, zeroed |-> FALSE, port |-> "",
          via |-> "", more |-> FALSE, h |-> None, target |-> None,
          timedout |-> FALSE, held |-> None, before |-> <<>>]

(* A thread object.  packet: the frame send_dmx_packet has built; wh: the  *)
(* handle of the write in flight; ret: what send_dmx_packet has returned,  *)
(* kept while the thread sleeps;                                           *)
(* bo: a blackout was in progress when the packet was built; stale: the    *)
(* universe has been mutated since the packet was built.                   *)
NoLoop == [pc |-> "unborn", packet |-> <<>>, wh |-> None, ret |-> "none",
           bo |-> FALSE, stale |-> FALSE]

Init ==
    /\ dmx_data = Zeros
    /\ serial_port = None
    /\ running = FALSE
    /\ update_thread = None
    /\ handle = [h \in Handles |-> "free"]
    /\ loop = [l \in Loops |-> NoLoop]
    /\ pc = [t \in Threads |-> IF t = MainThread THEN "ctor" ELSE "idle"]
    /\ loc = [t \in Threads |-> NoLoc]
    /\ constructed = FALSE
    /\ calls = 0

(* status as get_status computes it; a Serial object keeps the port name   *)
(* it was created with, so the object stands for its name                  *)
get_status ==
    [connected |-> serial_port # None,
     port |-> serial_port,
     running |-> running]


(* ---------------- helpers of the actions ---------------- *)
Idle(t) == pc[t] = "idle" /\ constructed

(* a mutation of the universe makes the packets already built out of date *)
Mutate(data) ==
    /\ dmx_data' = data
    /\ loop' = [l \in Loops |->
                  IF loop[l].packet # <<>> /\ data # dmx_data
                  THEN [loop[l] EXCEPT !.stale = TRUE]
                  ELSE loop[l]]

(* ---------------- Flask handlers on the universe ---------------- *)
(* The for loop of set_channels at index i (enumerate counts from 0, i     *)
(* from 1): self.set_channel(start_channel + i, value), then the next      *)
(* index or the end of the call.                                           *)
IterateFromOne(t, start, values, i, dirty) ==
    LET data == set_channel(dmx_data, start + i, values[i])
    IN /\ Mutate(data)
       /\ IF i = Len(values)
          THEN /\ pc' = [pc EXCEPT ![t] = "idle"]
               /\ loc' = [loc EXCEPT ![t] = NoLoc]
          ELSE /\ pc' = [pc EXCEPT ![t] = "sc_loop"]
               /\ loc' = [loc EXCEPT ![t] = [NoLoc EXCEPT !.op = "set_channels",
                                                          !.start = start,
                                                          !.values = values,
                                                          !.i = i + 1,
                                                          !.dirty = dirty \/ data # dmx_data,
                                                          !.before = loc[t].before]]

Iterate(t, start, values, i, dirty) ==
    LET data == set_channel(dmx_data, start + (i - 1), values[i])
    IN /\ Mutate(data)
       /\ IF i = Len(values)
          THEN /\ pc' = [pc EXCEPT ![t] = "idle"]
               /\ loc' = [loc EXCEPT ![t] = NoLoc]
          ELSE /\ pc' = [pc EXCEPT ![t] = "sc_loop"]
               /\ loc' = [loc EXCEPT ![t] = [NoLoc EXCEPT !.op = "set_channels",
                                                          !.start = start,
                                                          !.values = values,
                                                          !.i = i + 1,
                                                          !.dirty = dirty \/ data # dmx_data,
                                                          !.before = loc[t].before]]

(* POST /dmx: update_dmx calls dmx.set_channels(start_address, channels),  *)
(* which returns at once on an empty list and otherwise runs its first     *)
(* iteration                                                               *)
update_dmx(t) ==
    /\ Idle(t)
    /\ \E start \in StartChannels, values \in ValueLists :
         IF values = <<>>
         THEN UNCHANGED <<dmx_data, loop, pc, loc>>
         ELSE Iterate(t, start, values, 1, FALSE)
    /\ UNCHANGED <<serial_port, running, update_thread, handle, constructed, calls>>

(* a later iteration of the for loop of set_channels *)
set_channels(t) ==
    /\ pc[t] = "sc_loop"
    /\ Iterate(t, loc[t].start, loc[t].values, loc[t].i, loc[t].dirty)
    /\ UNCHANGED <<serial_port, running, update_thread, handle, constructed, calls>>

(* a direct call of set_channel: one store *)
set_channel_call(t) ==
    /\ Idle(t)
    /\ \E channel \in StartChannels \cup {NumChannels, NumChannels + 1},
          value \in Levels :
         Mutate(set_channel(dmx_data, channel, value))
    /\ UNCHANGED <<serial_port, running, update_thread, handle, pc,
                   loc, constructed, calls>>

(* POST /blackout: the right-hand side [0] * 512 is built ...              *)
blackout_build(t) ==
    /\ Idle(t)
    /\ pc' = [pc EXCEPT ![t] = "bo_assign"]
    /\ loc' = [loc EXCEPT ![t] = [NoLoc EXCEPT !.op = "blackout"]]
    /\ UNCHANGED <<dmx_data, serial_port, running, update_thread, handle,
                   loop, constructed, calls>>

(* the zeros written over the old list, the last channel missed *)
blackout_short(t) ==
    /\ pc[t] = "bo_assign"
    /\ Mutate([c \in 1..NumChannels |-> IF c < NumChannels THEN 0 ELSE dmx_data[c]])
    /\ pc' = [pc EXCEPT ![t] = "idle"]
    /\ loc' = [loc EXCEPT ![t] = NoLoc]
    /\ UNCHANGED <<serial_port, running, update_thread, handle, constructed, calls>>

(* the universe zeroed in place, a channel at a time *)
blackout_in_place(t) ==
    /\ pc[t] = "bo_assign"
    /\ LET lit == {c \in 1..NumChannels : dmx_data[c] # 0}
       IN IF lit = {}
          THEN /\ pc' = [pc EXCEPT ![t] = "idle"]
               /\ loc' = [loc EXCEPT ![t] = NoLoc]
               /\ UNCHANGED <<dmx_data, loop>>
          ELSE /\ Mutate([dmx_data EXCEPT
                            ![CHOOSE c \in lit : \A d \in lit : c <= d] = 0])
               /\ pc' = pc
               /\ loc' = [loc EXCEPT ![t].zeroed = TRUE]
    /\ UNCHANGED <<serial_port, running, update_thread, handle, constructed,
                   calls>>

(* ... and dmx.dmx_data is rebound to it: one attribute store              *)
blackout(t) ==
    /\ pc[t] = "bo_assign"
    /\ Mutate(Zeros)
    /\ pc' = [pc EXCEPT ![t] = "idle"]
    /\ loc' = [loc EXCEPT ![t] = NoLoc]
    /\ UNCHANGED <<serial_port, running, update_thread, handle, constructed, calls>>


(* ---------------- connection lifecycle ---------------- *)
(* positions of a thread that has been started and has not ended *)
Live == {"check", "send", "write", "writing", "sleep"}
FreeHandles == {h \in Handles : handle[h] = "free"}
FreeLoops == {l \in Loops : loop[l].pc = "unborn"}
(* connect, auto_connect and stop calls, and those of a lone caller, are   *)
(* issued MaxCalls times                                                   *)
Issue ==
    /\ calls < MaxCalls
    /\ calls' = calls + 1

Return(t, ret) ==
    /\ pc' = [pc EXCEPT ![t] = "ret"]
    /\ loc' = [loc EXCEPT ![t].ret = ret]

(* DMXController.__init__ after its four assignments (the Init state):     *)
(* connect(port) when a port is given, auto_connect otherwise              *)
ctor(t) ==
    /\ pc[t] = "ctor"
    /\ \E port \in {""} \cup Devices :
         IF port # ""
         THEN /\ pc' = [pc EXCEPT ![t] = "cn_open"]
              /\ loc' = [loc EXCEPT ![t] = [NoLoc EXCEPT !.op = "connect",
                                                         !.port = port,
                                                         !.via = "direct"]]
         ELSE /\ pc' = [pc EXCEPT ![t] = "ac_scan"]
              /\ loc' = [loc EXCEPT ![t] = [NoLoc EXCEPT !.op = "auto_connect"]]
    /\ UNCHANGED <<dmx_data, serial_port, running, update_thread, handle,
                   loop, constructed, calls>>

connect_call(t) ==
    /\ Idle(t)
    /\ Issue
    /\ \E port \in Devices :
         /\ pc' = [pc EXCEPT ![t] = "cn_open"]
         /\ loc' = [loc EXCEPT ![t] = [NoLoc EXCEPT !.op = "connect",
                                                    !.port = port,
                                                    !.via = "direct"]]
    /\ UNCHANGED <<dmx_data, serial_port, running, update_thread, handle,
                   loop, constructed>>

auto_connect_call(t) ==
    /\ Idle(t)
    /\ Issue
    /\ pc' = [pc EXCEPT ![t] = "ac_scan"]
    /\ loc' = [loc EXCEPT ![t] = [NoLoc EXCEPT !.op = "auto_connect"]]
    /\ UNCHANGED <<dmx_data, serial_port, running, update_thread, handle,
                   loop, constructed>>

(* auto_connect up to its first connect: ports = comports(), then the for  *)
(* loop skips the ports whose description matches no keyword; the first    *)
(* match is connected, the end of the list returns False.  more: a later   *)
(* port of the list matches too.                                           *)
FirstMatch(ports) ==
    IF \E k \in 1..Len(ports) : matches(ports[k])
    THEN CHOOSE k \in 1..Len(ports) :
            matches(ports[k]) /\ \A j \in 1..(k - 1) : ~matches(ports[j])
    ELSE 0

auto_connect(t) ==
    /\ pc[t] = "ac_scan"
    /\ \E ports \in comports :
         LET k == FirstMatch(ports)
         IN IF k = 0
            THEN Return(t, "False")
            ELSE /\ pc' = [pc EXCEPT ![t] = "cn_open"]
                 /\ loc' = [loc EXCEPT ![t].port = ports[k],
                                       ![t].via = "auto",
                                       ![t].more = \E j \in (k + 1)..Len(ports) :
                                                      matches(ports[j])]
    /\ UNCHANGED <<dmx_data, serial_port, running, update_thread, handle,
                   loop, constructed, calls>>

(* connect returns ret; inside auto_connect its result is dropped and      *)
(* auto_connect returns True (line 67)                                     *)
connect_return(t, ret) ==
    Return(t, IF loc[t].via = "auto" THEN "True" ELSE ret)

(* self.serial_port = serial.Serial(...) succeeds *)
connect(t) ==
    /\ pc[t] = "cn_open"
    /\ FreeHandles # {}
    /\ LET h == CHOOSE x \in FreeHandles : \A y \in FreeHandles : x <= y
       IN /\ handle' = [handle EXCEPT ![h] = "open"]
          /\ serial_port' = h
          /\ loc' = [loc EXCEPT ![t].h = h, ![t].port = ""]
    /\ pc' = [pc EXCEPT ![t] = "su_check"]
    /\ UNCHANGED <<dmx_data, running, update_thread, loop, constructed, calls>>

(* start_updates reached although the open raised *)
connect_failed_starts(t) ==
    /\ pc[t] = "cn_open"
    /\ pc' = [pc EXCEPT ![t] = "su_check"]
    /\ UNCHANGED <<dmx_data, serial_port, running, update_thread, handle,
                   loop, loc, constructed, calls>>

(* the open raises, yet the attribute is bound and the updates are started *)
connect_failed_binds(t) ==
    /\ pc[t] = "cn_open"
    /\ FreeHandles # {}
    /\ serial_port' = CHOOSE x \in FreeHandles : \A y \in FreeHandles : x <= y
    /\ pc' = [pc EXCEPT ![t] = "su_check"]
    /\ UNCHANGED <<dmx_data, running, update_thread, handle, loop, loc,
                   constructed, calls>>

(* serial.Serial(...) raises: caught at line 89, connect returns False *)
connect_failed(t) ==
    /\ pc[t] = "cn_open"
    /\ connect_return(t, "False")
    /\ UNCHANGED <<dmx_data, serial_port, running, update_thread, handle,
                   loop, constructed, calls>>

(* start_updates: if self.running: return *)
start_updates(t) ==
    /\ pc[t] = "su_check"
    /\ IF running
       THEN connect_return(t, "True")
       ELSE /\ pc' = [pc EXCEPT ![t] = "su_set"]
            /\ loc' = loc
    /\ UNCHANGED <<dmx_data, serial_port, running, update_thread, handle,
                   loop, constructed, calls>>

(* self.running = True *)
start_updates_set(t) ==
    /\ pc[t] = "su_set"
    /\ running' = TRUE
    /\ pc' = [pc EXCEPT ![t] = "su_create"]
    /\ UNCHANGED <<dmx_data, serial_port, update_thread, handle, loop,
                   loc, constructed, calls>>

(* self.update_thread = threading.Thread(...) *)
start_updates_thread(t) ==
    /\ pc[t] = "su_create"
    /\ FreeLoops # {}
    /\ LET l == CHOOSE x \in FreeLoops : \A y \in FreeLoops : x <= y
       IN /\ loop' = [loop EXCEPT ![l].pc = "created"]
          /\ update_thread' = l
    /\ pc' = [pc EXCEPT ![t] = "su_start"]
    /\ UNCHANGED <<dmx_data, serial_port, running, handle, loc,
                   constructed, calls>>

(* self.update_thread.start(): the attribute is read again; starting a     *)
(* thread a second time raises RuntimeError, caught at line 89             *)
start_updates_start(t) ==
    /\ pc[t] = "su_start"
    /\ IF loop[update_thread].pc = "created"
       THEN /\ loop' = [loop EXCEPT ![update_thread].pc = "check"]
            /\ connect_return(t, "True")
       ELSE /\ loop' = loop
            /\ connect_return(t, "False")
    /\ UNCHANGED <<dmx_data, serial_port, running, update_thread, handle,
                   constructed, calls>>

(* stop: self.running = False *)
stop_call(t) ==
    /\ Idle(t)
    /\ Issue
    /\ running' = FALSE
    /\ pc' = [pc EXCEPT ![t] = "st_join"]
    /\ loc' = [loc EXCEPT ![t] = [NoLoc EXCEPT !.op = "stop",
                                               !.held = serial_port]]
    /\ UNCHANGED <<dmx_data, serial_port, update_thread, handle, loop,
                   constructed>>

(* if self.update_thread: self.update_thread.join(timeout=2) is called;    *)
(* join raises RuntimeError on a thread that has not been started          *)
stop_join(t) ==
    /\ pc[t] = "st_join"
    /\ IF update_thread = None
       THEN /\ pc' = [pc EXCEPT ![t] = "st_close"]
            /\ loc' = loc
       ELSE IF loop[update_thread].pc = "created"
            THEN Return(t, "raise")
            ELSE /\ pc' = [pc EXCEPT ![t] = "st_wait"]
                 /\ loc' = [loc EXCEPT ![t].target = update_thread]
    /\ UNCHANGED <<dmx_data, serial_port, running, update_thread, handle,
                   loop, constructed, calls>>

(* join returns because the thread has ended *)
stop_joined(t) ==
    /\ pc[t] = "st_wait"
    /\ loop[loc[t].target].pc = "done"
    /\ pc' = [pc EXCEPT ![t] = "st_close"]
    /\ UNCHANGED <<dmx_data, serial_port, running, update_thread, handle,
                   loop, loc, constructed, calls>>

(* a timed-out join treated as an error: stop returns without the close *)
stop_join_timeout_gives_up(t) ==
    /\ pc[t] = "st_wait"
    /\ loop[loc[t].target].pc \in Live
    /\ pc' = [pc EXCEPT ![t] = "ret"]
    /\ loc' = [loc EXCEPT ![t].timedout = TRUE, ![t].ret = "None"]
    /\ UNCHANGED <<dmx_data, serial_port, running, update_thread, handle,
                   loop, constructed, calls>>

(* join returns after 2 s while the thread is alive, wherever it is: in a  *)
(* write that blocks, or not scheduled in time                             *)
stop_join_timeout(t) ==
    /\ pc[t] = "st_wait"
    /\ loop[loc[t].target].pc \in Live
    /\ pc' = [pc EXCEPT ![t] = "st_close"]
    /\ loc' = [loc EXCEPT ![t].timedout = TRUE]
    /\ UNCHANGED <<dmx_data, serial_port, running, update_thread, handle,
                   loop, constructed, calls>>

(* if self.serial_port: self.serial_port.close() *)
stop(t) ==
    /\ pc[t] = "st_close"
    /\ handle' = IF serial_port # None
                 THEN [handle EXCEPT ![serial_port] = "closed"]
                 ELSE handle
    /\ Return(t, "None")
    /\ UNCHANGED <<dmx_data, serial_port, running, update_thread, loop,
                   constructed, calls>>

(* the call returns to its caller; the first return is that of __init__ *)
call_return(t) ==
    /\ pc[t] = "ret"
    /\ pc' = [pc EXCEPT ![t] = "idle"]
    /\ loc' = [loc EXCEPT ![t] = NoLoc]
    /\ constructed' = TRUE
    /\ UNCHANGED <<dmx_data, serial_port, running, update_thread, handle,
                   loop, calls>>

(* ---------------- the update thread ---------------- *)
(* the loop condition ignored: while True *)
update_loop_forever(l) ==
    /\ loop[l].pc = "check"
    /\ loop' = [loop EXCEPT ![l].pc = "send"]
    /\ UNCHANGED <<dmx_data, serial_port, running, update_thread, handle,
                   pc, loc, constructed, calls>>

(* while self.running: *)
update_loop(l) ==
    /\ loop[l].pc = "check"
    /\ loop' = IF running
               THEN [loop EXCEPT ![l].pc = "send"]
               ELSE [loop EXCEPT ![l] = [NoLoop EXCEPT !.pc = "done"]]
    /\ UNCHANGED <<dmx_data, serial_port, running, update_thread, handle,
                   pc, loc, constructed, calls>>

(* the frame is built from a fresh [0] * 512, not from self.dmx_data *)
send_dmx_packet_blank(l) ==
    /\ loop[l].pc = "send"
    /\ loop' = IF serial_port = None
               THEN [loop EXCEPT ![l].pc = "sleep", ![l].ret = "False"]
               ELSE [loop EXCEPT ![l].pc = "write",
                                 ![l].packet = Encode(Zeros),
                                 ![l].stale = FALSE,
                                 ![l].bo = \E t \in Threads : pc[t] = "bo_assign"]
    /\ UNCHANGED <<dmx_data, serial_port, running, update_thread, handle,
                   pc, loc, constructed, calls>>

(* send_dmx_packet up to the write: without a port it returns False, with  *)
(* one it copies the universe into the frame                               *)
send_dmx_packet(l) ==
    /\ loop[l].pc = "send"
    /\ loop' = IF serial_port = None
               THEN [loop EXCEPT ![l].pc = "sleep", ![l].ret = "False"]
               ELSE [loop EXCEPT ![l].pc = "write",
                                 ![l].packet = Encode(dmx_data),
                                 ![l].stale = FALSE,
                                 ![l].bo = \E t \in Threads : pc[t] = "bo_assign"]
    /\ UNCHANGED <<dmx_data, serial_port, running, update_thread, handle,
                   pc, loc, constructed, calls>>

(* self.serial_port.write(packet) is called: a closed port raises at once  *)
serial_write(l) ==
    /\ loop[l].pc = "write"
    /\ loop' = IF handle[serial_port] = "open"
               THEN [loop EXCEPT ![l].pc = "writing", ![l].wh = serial_port]
               ELSE [loop EXCEPT ![l].pc = "sleep", ![l].ret = "False",
                                 ![l].packet = <<>>, ![l].stale = FALSE,
                                 ![l].bo = FALSE]
    /\ UNCHANGED <<dmx_data, serial_port, running, update_thread, handle,
                   pc, loc, constructed, calls>>

(* the write completes: send_dmx_packet returns True *)
serial_write_ok(l) ==
    /\ loop[l].pc = "writing"
    /\ handle[loop[l].wh] = "open"
    /\ loop' = [loop EXCEPT ![l] = [NoLoop EXCEPT !.pc = "sleep", !.ret = "True"]]
    /\ UNCHANGED <<dmx_data, serial_port, running, update_thread, handle,
                   pc, loc, constructed, calls>>

(* a write error ends the loop *)
serial_write_failed_stops(l) ==
    /\ loop[l].pc = "writing"
    /\ running' = FALSE
    /\ loop' = [loop EXCEPT ![l] = [NoLoop EXCEPT !.pc = "sleep", !.ret = "False"]]
    /\ UNCHANGED <<dmx_data, serial_port, update_thread, handle, pc, loc,
                   constructed, calls>>

(* the write raises: caught at line 132, send_dmx_packet returns False *)
serial_write_failed(l) ==
    /\ loop[l].pc = "writing"
    /\ loop' = [loop EXCEPT ![l] = [NoLoop EXCEPT !.pc = "sleep", !.ret = "False"]]
    /\ UNCHANGED <<dmx_data, serial_port, running, update_thread, handle,
                   pc, loc, constructed, calls>>

(* time.sleep(1.0 / 44.0), back to the loop condition *)
update_loop_sleep(l) ==
    /\ loop[l].pc = "sleep"
    /\ loop' = [loop EXCEPT ![l].pc = "check", ![l].ret = "none"]
    /\ UNCHANGED <<dmx_data, serial_port, running, update_thread, handle,
                   pc, loc, constructed, calls>>

(* ---------------- specifications ---------------- *)
Connecting ==
    \E t \in Threads :
        \/ ctor(t)
        \/ auto_connect(t)
        \/ connect(t)
        \/ connect_failed(t)
        \/ start_updates(t)
        \/ start_updates_set(t)
        \/ start_updates_thread(t)
        \/ start_updates_start(t)
        \/ call_return(t)

Transmitting ==
    \E l \in Loops :
        \/ update_loop(l)
        \/ send_dmx_packet(l)
        \/ serial_write(l)
        \/ serial_write_ok(l)
        \/ serial_write_failed(l)
        \/ update_loop_sleep(l)

(* the universe under concurrent requests, after construction *)
NextData ==
    \/ Connecting
    \/ Transmitting
    \/ \E t \in Threads :
        \/ update_dmx(t)
        \/ set_channels(t)
        \/ set_channel_call(t)
        \/ blackout_build(t)
        \/ blackout(t)

SpecData == Init /\ [][NextData]_vars

(* the connection under concurrent connect / auto_connect / stop calls *)
NextLife ==
    \/ Connecting
    \/ Transmitting
    \/ \E t \in Threads :
        \/ connect_call(t)
        \/ auto_connect_call(t)
        \/ stop_call(t)
        \/ stop_join(t)
        \/ stop_joined(t)
        \/ stop_join_timeout(t)
        \/ stop(t)

SpecLife == Init /\ [][NextLife]_vars

(* a step of update thread l *)
Tick(l) ==
    \/ update_loop(l)
    \/ send_dmx_packet(l)
    \/ serial_write(l)
    \/ serial_write_ok(l)
    \/ serial_write_failed(l)
    \/ update_loop_sleep(l)

(* a started thread is scheduled again and again, its sleep ends and each  *)
(* write it issues returns or raises                                       *)
FairLife == SpecLife /\ \A l \in Loops : WF_vars(Tick(l))

(* the encoder over a range of universes: a connected, running controller  *)
(* whose callers have set the first two channels and the last one to 0, 10 *)
(* or 255 and then stay quiet                                              *)
EncodeChannels == {1, 2, NumChannels}
EncodeLevels == {0, 10, MaxLevel}
Universes ==
    {[c \in 1..NumChannels |-> IF c \in EncodeChannels THEN f[c] ELSE 0] :
        f \in [EncodeChannels -> EncodeLevels]}

InitEncode ==
    /\ dmx_data \in Universes
    /\ serial_port = 1
    /\ running = TRUE
    /\ update_thread = 1
    /\ handle = [h \in Handles |-> IF h = 1 THEN "open" ELSE "free"]
    /\ loop = [l \in Loops |-> IF l = 1 THEN [NoLoop EXCEPT !.pc = "check"]
                                         ELSE NoLoop]
    /\ pc = [t \in Threads |-> "idle"]
    /\ loc = [t \in Threads |-> NoLoc]
    /\ constructed = TRUE
    /\ calls = MaxCalls

NextEncode ==
    \E l \in Loops :
        \/ update_loop(l)
        \/ send_dmx_packet(l)
        \/ serial_write(l)
        \/ serial_write_ok(l)
        \/ serial_write_failed(l)
        \/ update_loop_sleep(l)

SpecEncode == InitEncode /\ [][NextEncode]_vars


(* ---------------- properties ---------------- *)
InRange(channel) == 1 <= channel /\ channel <= NumChannels
Channel(t, j) == loc[t].start + (j - 1)
Applied(t) == {j \in 1..(loc[t].i - 1) : InRange(Channel(t, j))}
Pending(t) == {j \in loc[t].i..Len(loc[t].values) : InRange(Channel(t, j))}

(* the set_channels call of t is visible in part in universe u: the        *)
(* updates it has applied are all there and one of them changed a channel, *)
(* and an update it has yet to apply is not there                          *)
Torn(t, u) ==
    /\ pc[t] = "sc_loop"
    /\ loc[t].dirty
    /\ \A j \in Applied(t) : u[Channel(t, j)] = Clamp(loc[t].values[j])
    /\ \E j \in Pending(t) : u[Channel(t, j)] # Clamp(loc[t].values[j])

Snapshot(l) == loop[l].pc = "send" /\ loop'[l].pc = "write"
Frame(l) == Payload(loop'[l].packet)
Opened == {h \in Handles : handle[h] # "free"}
Returned(t, op) == pc[t] = "ret" /\ loc[t].op = op

(* C1: no frame the update thread builds shows a set_channels call of a    *)
(* concurrent caller applied in part: of its in-range updates the frame    *)
(* holds none or all.                                                      *)
C1_NoTornSnapshot ==
    [][\A l \in Loops : Snapshot(l) => \A t \in Threads : ~Torn(t, Frame(l))]_vars

(* C2: at most one update thread is alive (started and not ended) at any   *)
(* time, whatever the interleaving of connect / start_updates / stop.      *)
C2_OneLoop == Cardinality({l \in Loops : loop[l].pc \in Live}) <= 1

(* C3: running implies connected: whenever self.running is true the        *)
(* controller holds a handle to an open transport.                         *)
C3_RunningImpliesConnected ==
    running => (serial_port # None /\ handle[serial_port] = "open")

(* C4: the universe always has exactly 512 entries, each in 0..255.        *)
C4_UniverseShape ==
    /\ Len(dmx_data) = NumChannels
    /\ \A c \in 1..NumChannels : dmx_data[c] \in 0..MaxLevel

(* a caller is in the middle of set_channels, with a clamped level stored  *)
(* and a blackout pending                                                  *)
C4_Witness ==
    /\ \E t \in Threads : pc[t] = "sc_loop"
    /\ \E t \in Threads : pc[t] = "bo_assign"
    /\ \E c \in 1..NumChannels : dmx_data[c] = MaxLevel

C6_StopTearsDown ==
    \A t \in Threads :
        ( /\ Returned(t, "stop")
          /\ loc[t].ret = "None"
          /\ loc[t].held # None
          /\ serial_port = loc[t].held
          /\ \A u \in Threads \ {t} : pc[u] = "idle" )
        => (~get_status.running /\ ~get_status.connected)

(* C7: when stop returns, the handle the controller holds (the one it held *)
(* when stop was called) is closed, whether the join succeeded or timed    *)
(* out.                                                                    *)
C7_StopReleasesTransport ==
    \A t \in Threads :
        ( /\ Returned(t, "stop")
          /\ loc[t].ret = "None"
          /\ loc[t].held # None
          /\ serial_port = loc[t].held )
        => handle[serial_port] = "closed"

(* stop has returned after a timed-out join, the write still hangs, and    *)
(* the handle is closed                                                    *)
C7_Witness ==
    \E t \in Threads :
        /\ Returned(t, "stop")
        /\ loc[t].timedout
        /\ loop[loc[t].target].pc = "writing"
        /\ serial_port = loc[t].held
        /\ serial_port # None
        /\ handle[serial_port] = "closed"

(* C8: a failed write changes neither running, the handles nor the         *)
(* universe, drops its frame and leaves the thread in its loop; every tick *)
(* with running true copies the universe as it is then and calls write.    *)
C8_WriteFailureSkipsTick ==
    [][\A l \in Loops :
          /\ ( \/ loop[l].pc = "writing" /\ loop'[l].ret = "False"
               \/ loop[l].pc = "write" /\ loop'[l].pc = "sleep" )
             => /\ UNCHANGED <<running, serial_port, handle, dmx_data>>
                /\ loop'[l].pc = "sleep"
                /\ loop'[l].packet = <<>>
          /\ (loop[l].pc = "sleep" /\ loop'[l] # loop[l])
             => loop'[l].pc = "check"
          /\ (loop[l].pc = "check" /\ running /\ loop'[l] # loop[l])
             => loop'[l].pc = "send"
          /\ (loop[l].pc = "send" /\ serial_port # None /\ loop'[l] # loop[l])
             => /\ loop'[l].pc = "write"
                /\ Frame(l) = dmx_data]_vars

(* a write has failed: the thread sleeps before its next tick, still       *)
(* running and connected, and the universe has lit channels                *)
C8_Witness ==
    \E l \in Loops :
        /\ loop[l].pc = "sleep"
        /\ loop[l].ret = "False"
        /\ running
        /\ serial_port # None
        /\ handle[serial_port] = "open"
        /\ dmx_data # Zeros

(* C9: auto_connect reports success exactly when it has established a      *)
(* connection: True with a port it opened, False with none.                *)
C9_DiscoveryReportsConnection ==
    \A t \in Threads :
        Returned(t, "auto_connect") => (loc[t].ret = "True" <=> loc[t].h # None)

StoreChannels == {-1, 0, 1, NumChannels, NumChannels + 1}
StoreLevels == {-3, 10, 300}
StoreStarts == {-1, 5, NumChannels - 1}
StoreLists == {<<>>, <<10, 20, 30>>, <<300, -3>>}
Alone(t) == \A u \in Threads \ {t} : pc[u] = "idle"

(* a disconnected controller after construction, the universe set by       *)
(* earlier requests                                                        *)
InitStore ==
    /\ dmx_data \in Universes
    /\ serial_port = None
    /\ running = FALSE
    /\ update_thread = None
    /\ handle = [h \in Handles |-> "free"]
    /\ loop = [l \in Loops |-> NoLoop]
    /\ pc = [t \in Threads |-> "idle"]
    /\ loc = [t \in Threads |-> NoLoc]
    /\ constructed = TRUE
    /\ calls = MaxCalls - 1

(* set_channel(channel, value) called while no other caller is active *)
set_channel_alone(t) ==
    /\ Idle(t)
    /\ Alone(t)
    /\ Issue
    /\ \E channel \in StoreChannels, value \in StoreLevels :
         /\ Mutate(set_channel(dmx_data, channel, value))
         /\ pc' = [pc EXCEPT ![t] = "ret"]
         /\ loc' = [loc EXCEPT ![t] = [NoLoc EXCEPT !.op = "set_channel",
                                                    !.ret = "None",
                                                    !.start = channel,
                                                    !.values = <<value>>,
                                                    !.before = dmx_data]]
    /\ UNCHANGED <<serial_port, running, update_thread, handle, constructed>>

(* set_channels(start_channel, values) called while no other caller is     *)
(* active: an empty list ends the for loop at once                         *)
set_channels_alone(t) ==
    /\ Idle(t)
    /\ Alone(t)
    /\ Issue
    /\ \E start \in StoreStarts, values \in StoreLists :
         /\ pc' = [pc EXCEPT ![t] = IF values = <<>> THEN "ret" ELSE "sc_loop"]
         /\ loc' = [loc EXCEPT ![t] = [NoLoc EXCEPT !.op = "set_channels",
                                                    !.ret = "None",
                                                    !.start = start,
                                                    !.values = values,
                                                    !.i = 1,
                                                    !.before = dmx_data]]
    /\ UNCHANGED <<dmx_data, serial_port, running, update_thread, handle,
                   loop, constructed>>

NextStore ==
    \E t \in Threads :
        \/ set_channel_alone(t)
        \/ set_channels_alone(t)
        \/ set_channels(t)
        \/ call_return(t)

SpecStore == InitStore /\ [][NextStore]_vars

Clamped(v) == IF v < 0 THEN 0 ELSE IF v > 255 THEN 255 ELSE v

(* C14: set_channel(c, v) of a lone caller: with c in 1..512 channel c     *)
(* reads v clamped to 0..255 and every other channel is as before; with c  *)
(* outside 1..512 (0, negative, 513) the universe is as before; the call   *)
(* returns normally.                                                       *)
C14_SetChannel ==
    \A t \in Threads :
        Returned(t, "set_channel") =>
            LET c == loc[t].start
                v == loc[t].values[1]
            IN /\ loc[t].ret = "None"
               /\ (c >= 1 /\ c <= 512) =>
                     /\ dmx_data[c] = Clamped(v)
                     /\ \A d \in (1..512) \ {c} : dmx_data[d] = loc[t].before[d]
               /\ ~(c >= 1 /\ c <= 512) => dmx_data = loc[t].before

(* set_channel(0, 300) has returned on a universe with channel 512 at 10,  *)
(* which it has left alone                                                 *)
C14_Witness ==
    \E t \in Threads :
        /\ Returned(t, "set_channel")
        /\ loc[t].start = 0
        /\ loc[t].values = <<300>>
        /\ dmx_data[512] = 10

(* the universe set_channels(start, values) leaves when it runs alone on   *)
(* universe before: entry j of values goes to channel start + j - 1        *)
After(before, start, values) ==
    [c \in 1..512 |->
        IF c - start + 1 \in 1..Len(values)
        THEN Clamped(values[c - start + 1])
        ELSE before[c]]

(* C15: set_channels(start, values) of a lone caller: when it returns each *)
(* entry addressed to a channel in 1..512 is there, clamped to 0..255,     *)
(* entries addressed below 1 or above 512 are dropped, every other channel *)
(* is as before, and an empty list changes nothing.                        *)
C15_SetChannels ==
    [][\A t \in Threads :
          /\ (pc[t] = "sc_loop" /\ pc'[t] = "idle") =>
                dmx_data' = After(loc[t].before, loc[t].start, loc[t].values)
          /\ (pc[t] = "idle" /\ pc'[t] = "ret" /\ loc'[t].op = "set_channels") =>
                /\ loc'[t].values = <<>>
                /\ dmx_data' = dmx_data]_vars

(* set_channels(511, [10, 20, 30]) is at its last entry, which addresses   *)
(* channel 513, with 10 and 20 stored in channels 511 and 512              *)
C15_Witness ==
    \E t \in Threads :
        /\ pc[t] = "sc_loop"
        /\ loc[t].start = 511
        /\ loc[t].values = <<10, 20, 30>>
        /\ loc[t].i = 3
        /\ dmx_data[511] = 10
        /\ dmx_data[512] = 20

Writing(t) == pc[t] \in {"sc_loop", "bo_assign"}

(* C16: when blackout returns while no other writer is active all 512      *)
(* channels read 0, whatever the universe was, and the call has changed    *)
(* neither the transport handle nor the running flag.                      *)
C16_Blackout ==
    [][\A t \in Threads :
          /\ (pc[t] = "idle" /\ pc'[t] = "bo_assign") =>
                UNCHANGED <<serial_port, handle, running, update_thread>>
          /\ (pc[t] = "bo_assign" /\ pc'[t] = "idle"
                /\ \A u \in Threads \ {t} : ~Writing(u)) =>
                /\ \A c \in 1..512 : dmx_data'[c] = 0
                /\ Len(dmx_data') = 512
                /\ UNCHANGED <<serial_port, handle, running, update_thread>>]_vars

(* a blackout is about to complete on a connected, running controller with *)
(* channel 512 lit and no other writer active                              *)
C16_Witness ==
    \E t \in Threads :
        /\ pc[t] = "bo_assign"
        /\ \A u \in Threads \ {t} : ~Writing(u)
        /\ dmx_data[512] # 0
        /\ running
        /\ serial_port # None
        /\ handle[serial_port] = "open"

(* one caller issues set_channels requests while another issues blackouts, *)
(* with no other writer                                                    *)
NextRace ==
    \/ update_dmx(MainThread)
    \/ set_channels(MainThread)
    \/ \E t \in Threads \ {MainThread} :
          \/ blackout_build(t)
          \/ blackout(t)

SpecRace == InitStore /\ [][NextRace]_vars

(* C17: a set_channels call and a blackout that overlap, with no other     *)
(* writer, leave the universe of one of their two serial orders: when the  *)
(* set_channels call returns and no blackout is pending the universe is    *)
(* all zeros or holds every in-range value of the call, never only some of *)
(* them.                                                                   *)
C17_Linearizable ==
    [][\A t \in Threads :
          (pc[t] = "sc_loop" /\ pc'[t] = "idle"
            /\ \A u \in Threads \ {t} : ~Writing(u)) =>
              \/ dmx_data' = Zeros
              \/ \A j \in 1..Len(loc[t].values) :
                    InRange(Channel(t, j)) =>
                        dmx_data'[Channel(t, j)] = Clamped(loc[t].values[j])]_vars

(* C18: no transport handle is leaked: the controller never has more than  *)
(* one open handle, and when stop has returned with no other call in       *)
(* progress every handle the controller opened is closed.                  *)
C18_NoHandleLeak ==
    /\ Cardinality({h \in Handles : handle[h] = "open"}) <= 1
    /\ \A t \in Threads :
          ( /\ Returned(t, "stop")
            /\ loc[t].ret = "None"
            /\ \A u \in Threads \ {t} : pc[u] = "idle" )
          => \A h \in Handles : handle[h] # "open"

InConnect(t) ==
    pc[t] \in {"ctor", "ac_scan", "cn_open", "su_check", "su_set", "su_create",
               "su_start"}
(* no connect or auto_connect call is in progress and none is issued later *)
NoConnect == calls = MaxCalls /\ \A t \in Threads : ~InConnect(t)

(* C19: once stop has been called and has cleared running, with no connect *)
(* or start in progress or issued afterwards (none has set running again), *)
(* every update thread eventually ends; a thread that finds running false  *)
(* at its loop condition exits, and a thread that has ended takes no       *)
(* further step, so no frame is written after that.                        *)
C19_LoopTerminates ==
    /\ ((\E t \in Threads : pc[t] = "st_join") /\ ~running /\ NoConnect)
          ~> (\A l \in Loops : loop[l].pc \notin Live)
    /\ [][\A l \in Loops :
            /\ (loop[l].pc = "check" /\ ~running /\ loop'[l] # loop[l]) =>
                  loop'[l].pc = "done"
            /\ loop[l].pc = "done" => loop'[l] = loop[l]]_vars

(* stop has returned, no connect is in progress or can follow, and the     *)
(* update thread the controller started has ended                          *)
C19_Witness ==
    /\ \E t \in Threads : Returned(t, "stop")
    /\ ~running
    /\ NoConnect
    /\ update_thread # None
    /\ loop[update_thread].pc = "done"

(* C20: the update thread never calls write on a handle that has been      *)
(* closed: whenever it issues the write of a frame the handle it writes to *)
(* is open.                                                                *)
C20_NoWriteAfterClose ==
    [][\A l \in Loops :
          (loop[l].pc = "write" /\ loop'[l].pc # "write") =>
              handle[serial_port] = "open"]_vars

(* C11: while no open has ever succeeded (simulation mode) status reports  *)
(* a disconnected, stopped controller; no call raises; a step of blackout  *)
(* zeroes the universe and a step of set_channels stores its clamped value *)
(* as usual; and no frame is built and no write is issued.                 *)
C11_SimulationMode ==
    [][Opened = {} =>
          /\ get_status = [connected |-> FALSE, port |-> None, running |-> FALSE]
          /\ \A l \in Loops :
                /\ loop'[l].pc \notin {"write", "writing"}
                /\ loop'[l].packet = <<>>
                /\ loop'[l].ret # "True"
          /\ \A t \in Threads :
                /\ pc'[t] = "ret" => loc'[t].ret # "raise"
                /\ (pc[t] = "bo_assign" /\ pc'[t] = "idle") => dmx_data' = Zeros
                /\ (pc[t] = "sc_loop" /\ loc'[t] # loc[t]) =>
                      dmx_data' = set_channel(dmx_data, Channel(t, loc[t].i),
                                              loc[t].values[loc[t].i])]_vars

(* simulation mode after construction: the universe has been lit by one    *)
(* caller and the blackout of another is under way                         *)
C11_Witness ==
    /\ constructed
    /\ Opened = {}
    /\ dmx_data # Zeros
    /\ \E t \in Threads : pc[t] = "bo_assign"

(* C12: every frame written carries current state: a tick starts with no   *)
(* frame kept from an earlier tick and builds its frame from the universe  *)
(* as it is at that instant; the frame handed to write is that frame, and  *)
(* it equals the universe of the moment of the write unless the universe   *)
(* has been mutated since the frame was built.                             *)
C12_FrameIsCurrent ==
    [][\A l \in Loops :
          /\ Snapshot(l) => (loop[l].packet = <<>> /\ Frame(l) = dmx_data)
          /\ (loop[l].pc = "write" /\ loop'[l].pc = "writing") =>
                /\ loop'[l].packet = loop[l].packet
                /\ ~loop[l].stale => Payload(loop[l].packet) = dmx_data
          /\ (loop[l].pc = "write" /\ loop'[l].pc = "write") =>
                Payload(loop'[l].packet) = Payload(loop[l].packet)
          /\ loop'[l].pc \in {"check", "send", "sleep"} => loop'[l].packet = <<>>]_vars

(* a write is in flight whose frame shows the update that completed before *)
(* the frame was built                                                     *)
C12_Witness ==
    \E l \in Loops :
        /\ loop[l].pc = "writing"
        /\ ~loop[l].stale
        /\ Payload(loop[l].packet) # Zeros
        /\ Payload(loop[l].packet) = dmx_data

(* C13: the frame send_dmx_packet writes is 0x7E, 0x06, 0x01, 0x02, 0x00,  *)
(* the 512 channel values in channel order, 0xE7: 518 bytes; channel 1 at  *)
(* 255 and channel 512 at 10 give 7E 06 01 02 00 FF, 510 zeros, 0A E7.     *)
C13_FrameBytes ==
    \A l \in Loops :
        loop[l].pc \in {"write", "writing"} =>
            /\ Len(loop[l].packet) = 518
            /\ loop[l].packet = <<126, 6, 1, 2, 0>> \o dmx_data \o <<231>>
            /\ \A c \in 1..512 : loop[l].packet[5 + c] = dmx_data[c]
            /\ dmx_data = [c \in 1..512 |-> IF c = 1 THEN 255
                                             ELSE IF c = 512 THEN 10 ELSE 0]
                 => loop[l].packet = <<126, 6, 1, 2, 0, 255>>
                                     \o [c \in 1..510 |-> 0] \o <<10, 231>>

(* the frame of the universe with channel 1 at 255, channel 512 at 10 and   *)
(* the others at 0 is being written                                        *)
C13_Witness ==
    \E l \in Loops :
        /\ loop[l].pc = "writing"
        /\ dmx_data[1] = 255
        /\ dmx_data[512] = 10
        /\ \A c \in 2..511 : dmx_data[c] = 0

====
